---- MODULE Spec2Model ----
(***************************************************************************)
(* NHK Easy Practice With WaniKani (user script, version 0.3).             *)
(*                                                                         *)
(* The model follows one page load: handleUpdatingPage resolves the API    *)
(* token (getApiToken), walks the paginated assignments endpoint and, for  *)
(* every assignments page, the paginated subjects endpoint                 *)
(* (getAssignments / lookupVocab), and then hides the furigana of the      *)
(* known words in the page (findRubyInPage) and in the pop-up dictionary   *)
(* (findRubyInDictionary).                                                 *)
(*                                                                         *)
(* Text is a sequence of one-character strings, so that concatenation,     *)
(* regular-expression matching and replacement are computed character by   *)
(* character.                                                              *)
(***************************************************************************)
EXTENDS Integers, Sequences, FiniteSets, TLC

VARIABLES
    pc,            \* position of handleUpdatingPage (its pending await)
    storage,       \* GM storage value of the key WK_API_TOKEN
    existingToken, \* what GM.getValue returned at the start of the run
    userToken,     \* what prompt() returned (apiTokenFromUser)
    validation,    \* outcome of the validation request: none, ok, rejected, error
    apiToken,      \* the global apiToken
    knownVocab,    \* the Set built by getAssignments
    nextPage,      \* getAssignments' nextPage
    subjectIds,    \* the Set of subject ids of the current assignments page
    subjNextPage,  \* lookupVocab's nextPage
    inFlight,      \* requests sent and not yet answered
    sent,          \* every request sent to the API, in order
    pagesSeen,     \* assignments pages decoded so far, in order
    lookups,       \* one entry per lookupVocab call: its ids, whether it returned
    received,      \* slugs of all subjects pages received so far
    alerts,        \* number of alert() calls
    logs,          \* number of console.log(error) calls
    storeWrites,   \* number of GM.setValue calls
    document,      \* the ruby elements of the page, in document order
    g_dic,         \* the page's dictionary object (or undefined)
    document0,     \* the page as it was loaded
    g_dic0,        \* the dictionary as it was loaded
    records,       \* server: the user's assignment records
    aPageSize,     \* server: assignments per page
    sPageSize,     \* server: subjects per page
    honoursFilter, \* server: TRUE iff it applies srs_stages / subject_types
    escapes        \* server: TRUE iff its next_url values are percent-escaped

vars == << pc, storage, existingToken, userToken, validation, apiToken,
           knownVocab, nextPage, subjectIds, subjNextPage, inFlight, sent,
           pagesSeen, lookups, received, alerts, logs, storeWrites,
           document, g_dic, document0, g_dic0,
           records, aPageSize, sPageSize, honoursFilter, escapes >>

(***************************************************************************)
(* Bounds of the model.                                                    *)
(***************************************************************************)
MaxElems   == 3    \* ruby elements in a page
MaxEntries == 2    \* entries of the dictionary
MaxRecords == 3    \* assignment records of the user
MaxPage    == 2    \* largest page size the server uses

(***************************************************************************)
(* Text helpers.                                                           *)
(***************************************************************************)
Range(s) == { s[i] : i \in DOMAIN s }

RECURSIVE Concat(_)
Concat(ss) == IF ss = << >> THEN << >> ELSE Head(ss) \o Concat(Tail(ss))

\* Set.prototype.add on a Set kept in insertion order
SetAdd(s, x) == IF x \in Range(s) THEN s ELSE Append(s, x)

(***************************************************************************)
(* The page: a sequence of ruby elements, each a sequence of child nodes.  *)
(* A child node has a nodeType, a nodeName, its textContent, and the style *)
(* visibility of every rt element that is the node itself or one of its    *)
(* descendants, in document order.                                         *)
(***************************************************************************)
TextNode(t)    == [nodeType |-> "TEXT", nodeName |-> "#text",
                   textContent |-> t, rt |-> << >>]
RtNode(t)      == [nodeType |-> "ELEMENT", nodeName |-> "RT",
                   textContent |-> t, rt |-> << "" >>]
RbNode(t)      == [nodeType |-> "ELEMENT", nodeName |-> "RB",
                   textContent |-> t, rt |-> << >>]
\* <span>t<rt>r</rt></span>: the reading is not a child of the ruby element
SpanNode(t, r) == [nodeType |-> "ELEMENT", nodeName |-> "SPAN",
                   textContent |-> t \o r, rt |-> << "" >>]

\* getTextWithoutRuby: the reduce over rubyElement.childNodes
RECURSIVE getTextWithoutRuby(_)
getTextWithoutRuby(rubyElement) ==
    IF rubyElement = << >> THEN << >>
    ELSE LET childNode == Head(rubyElement)
         IN  (IF childNode.nodeType = "TEXT" \/ childNode.nodeName # "RT"
              THEN childNode.textContent
              ELSE << >>) \o getTextWithoutRuby(Tail(rubyElement))

\* foundWord.querySelector("rt"): index of the child holding the first rt
\* descendant in document order, 0 when there is none (null)
querySelectorRt(rubyElement) ==
    LET holders == { i \in DOMAIN rubyElement : rubyElement[i].rt # << >> }
    IN  IF holders = {} THEN 0
        ELSE CHOOSE i \in holders : \A j \in holders : i <= j

\* rubyText.style.visibility = "hidden"
hideRt(rubyElement, i) ==
    [rubyElement EXCEPT ![i].rt = [@ EXCEPT ![1] = "hidden"]]

\* findRubyInPage: forEach over the ruby elements from index i on.  A null
\* rubyText makes rubyText.style throw a TypeError, which ends the forEach.
RECURSIVE findRubyFrom(_, _, _)
findRubyFrom(doc, i, known) ==
    IF i > Len(doc) THEN [doc |-> doc, threw |-> FALSE]
    ELSE LET foundWord == doc[i]
             textWithoutRuby == getTextWithoutRuby(foundWord)
         IN  IF textWithoutRuby \in known
             THEN LET rubyText == querySelectorRt(foundWord)
                  IN  IF rubyText = 0
                      THEN [doc |-> doc, threw |-> TRUE]
                      ELSE findRubyFrom(
                               [doc EXCEPT ![i] = hideRt(foundWord, rubyText)],
                               i + 1, known)
             ELSE findRubyFrom(doc, i + 1, known)

findRubyInPage(doc, known) == findRubyFrom(doc, 1, known)

(***************************************************************************)
(* The dictionary: rubyElementMatcherExp and the replaceAll over every     *)
(* definition.                                                             *)
(***************************************************************************)
RubyRbOpen       == << "<","r","u","b","y",">","<","r","b",">" >>
RbCloseRtOpen    == << "<","/","r","b",">","<","r","t",">" >>
RtCloseRubyClose == << "<","/","r","t",">","<","/","r","u","b","y",">" >>

\* s has the literal lit at position i
Lit(s, i, lit) ==
    /\ i + Len(lit) - 1 <= Len(s)
    /\ SubSeq(s, i, i + Len(lit) - 1) = lit

\* [^<]* from position i: the position after the longest run of characters
\* other than "<".  The pattern continues with a literal "<", so no shorter
\* run can match.
RECURSIVE RunEnd(_, _)
RunEnd(s, i) ==
    IF i > Len(s) \/ s[i] = "<" THEN i ELSE RunEnd(s, i + 1)

NoMatch == [matched |-> FALSE, word |-> << >>, end |-> 0]

\* /<ruby><rb>([^<]*)<\/rb><rt>[^<]*<\/rt><\/ruby>/ anchored at position i
MatchAt(s, i) ==
    IF ~Lit(s, i, RubyRbOpen) THEN NoMatch
    ELSE LET p1 == i + Len(RubyRbOpen)
             e1 == RunEnd(s, p1)
         IN  IF ~Lit(s, e1, RbCloseRtOpen) THEN NoMatch
             ELSE LET p2 == e1 + Len(RbCloseRtOpen)
                      e2 == RunEnd(s, p2)
                  IN  IF ~Lit(s, e2, RtCloseRubyClose) THEN NoMatch
                      ELSE [matched |-> TRUE,
                            word    |-> SubSeq(s, p1, e1 - 1),
                            end     |-> e2 + Len(RtCloseRubyClose)]

\* the replacer with its two results exchanged
replacerExchanged(rubyElement, word, known) ==
    IF word \in known THEN rubyElement ELSE word

\* (rubyElement, word) => knownVocab.has(word) ? word : rubyElement
replacer(rubyElement, word, known) ==
    IF word \in known THEN word ELSE rubyElement

\* String.prototype.replaceAll with the global expression, from position i
RECURSIVE replaceAllFrom(_, _, _)
replaceAllFrom(s, i, known) ==
    IF i > Len(s) THEN << >>
    ELSE LET m == MatchAt(s, i)
         IN  IF m.matched
             THEN replacer(SubSeq(s, i, m.end - 1), m.word, known)
                      \o replaceAllFrom(s, m.end, known)
             ELSE << s[i] >> \o replaceAllFrom(s, i + 1, known)

\* findRubyInDictionary over g_dic.reikai.entries: every key, every entry
findRubyInDictionary(entries, known) ==
    [entryKey \in DOMAIN entries |->
        [j \in DOMAIN entries[entryKey] |->
            [entries[entryKey][j] EXCEPT
                !.def = replaceAllFrom(@, 1, known)]]]

(***************************************************************************)
(* Tokens.  undefined and null are the strings JavaScript prints for them, *)
(* which is also what "Bearer " + token puts in the header.                *)
(***************************************************************************)
Undefined == "undefined"
Null      == "null"

\* JavaScript truthiness of a token value
Truthy(t) == t \notin {Undefined, Null, ""}

ValidTokens  == {"good"}                      \* tokens the server accepts
StoredValues == {Undefined, "good", "stale"}  \* what GM storage may hold
UserInputs   == {"good", "bad", "", Null}     \* what prompt() may return

(***************************************************************************)
(* URLs and requests.  A URL is its endpoint, its query parameters, and    *)
(* whether its query is percent-escaped (%2C for a comma).                 *)
(***************************************************************************)
NullUrl == [ep |-> "null", stages |-> {}, kinds |-> {}, ids |-> << >>,
            after |-> 0, esc |-> FALSE]

ValidationUrl == [ep |-> "voice_actors", stages |-> {}, kinds |-> {},
                  ids |-> << >>, after |-> 0, esc |-> FALSE]

\* getAssignments' apiUrlPath
AssignmentsUrl == [ep |-> "assignments", stages |-> {5, 6, 7, 8, 9},
                   kinds |-> {"kanji", "vocabulary"}, ids |-> << >>,
                   after |-> 0, esc |-> FALSE]

\* lookupVocab's apiUrlPath: "subjects?ids=" + Array.from(subjectIds).join()
SubjectsUrl(ids) == [ep |-> "subjects", stages |-> {}, kinds |-> {},
                     ids |-> ids, after |-> 0, esc |-> FALSE]

decodeURIComponent(url) == [url EXCEPT !.esc = FALSE]

\* new Request(decodeURIComponent(url), {headers: {Authorization: "Bearer " + token}})
Request(url, token) ==
    [url |-> decodeURIComponent(url), auth |-> << "Bearer", token >>]

\* a loop that never asks for a further page
loopNever(next) == FALSE

\* while (nextPage)
loopAgain(next) == next.ep # "null"

(***************************************************************************)
(* The server.  It reads a URL's query the same whether or not the query   *)
(* is percent-escaped.                                                     *)
(***************************************************************************)
SubjectIdsOfUser == {1, 2, 3, 4}

RecordPool ==
    { [subject_id |-> 1, srs_stage |-> 5, subject_type |-> "kanji"],
      [subject_id |-> 2, srs_stage |-> 9, subject_type |-> "vocabulary"],
      [subject_id |-> 3, srs_stage |-> 4, subject_type |-> "vocabulary"],
      [subject_id |-> 4, srs_stage |-> 7, subject_type |-> "radical"] }

Slug(id) == CASE id = 1 -> << "a" >>
              [] id = 2 -> << "b" >>
              [] id = 3 -> << "a" >>
              [] OTHER  -> << "a", "b" >>

Min(a, b) == IF a < b THEN a ELSE b

\* the records the assignments endpoint serves for a URL
ServedRecords(url) ==
    IF honoursFilter
    THEN SelectSeq(records, LAMBDA r : /\ r.srs_stage \in url.stages
                                       /\ r.subject_type \in url.kinds)
    ELSE records

NextUrl(url, size, total) ==
    IF url.after + size < total
    THEN [url EXCEPT !.after = url.after + size, !.esc = escapes]
    ELSE NullUrl

\* body of a successful GET of an assignments URL
AssignmentsJson(url) ==
    LET served == ServedRecords(url)
        items  == SubSeq(served, url.after + 1,
                         Min(url.after + aPageSize, Len(served)))
    IN  [data  |-> [i \in DOMAIN items |-> [data |-> items[i]]],
         pages |-> [next_url |-> NextUrl(url, aPageSize, Len(served))]]

\* body of a successful GET of a subjects URL
SubjectsJson(url) ==
    LET items == SubSeq(url.ids, url.after + 1,
                        Min(url.after + sPageSize, Len(url.ids)))
    IN  [data  |-> [i \in DOMAIN items |->
                       [id |-> items[i], data |-> [slug |-> Slug(items[i])]]],
         pages |-> [next_url |-> NextUrl(url, sPageSize, Len(url.ids))]]

(***************************************************************************)
(* The resolver's helpers.                                                 *)
(***************************************************************************)
\* lookupSubjectIds: forEach over assignmentsAsJson.data
RECURSIVE addSubjectIds(_, _)
addSubjectIds(data, ids) ==
    IF data = << >> THEN ids
    ELSE addSubjectIds(Tail(data), SetAdd(ids, Head(data).data.subject_id))

\* lookupSubjectIds filtering by stage and kind on the client
lookupSubjectIdsFiltered(assignmentsAsJson, ids) ==
    addSubjectIds(
        SelectSeq(assignmentsAsJson.data,
                  LAMBDA val : /\ val.data.srs_stage >= 5
                               /\ val.data.subject_type \in {"kanji", "vocabulary"}),
        ids)

\* lookupSubjectIds appending to the identifiers of the earlier pages
lookupSubjectIdsCarried(assignmentsAsJson, ids) ==
    addSubjectIds(assignmentsAsJson.data, subjectIds)

lookupSubjectIds(assignmentsAsJson, ids) ==
    addSubjectIds(assignmentsAsJson.data, ids)

\* addVocabFromSubjects overwriting the set instead of adding to it
addVocabOverwriting(subjectsAsJson, vocabSet) ==
    { subjectsAsJson.data[i].data.slug : i \in DOMAIN subjectsAsJson.data }

\* addVocabFromSubjects: forEach over subjectsAsJson.data
addVocabFromSubjects(subjectsAsJson, vocabSet) ==
    vocabSet \cup { subjectsAsJson.data[i].data.slug :
                        i \in DOMAIN subjectsAsJson.data }

\* getApiToken returning the entered token whatever the response
tokenUnchecked(ok, apiTokenFromUser) == apiTokenFromUser

\* getApiToken after the validation response: what it returns
tokenAfterValidation(ok, apiTokenFromUser) ==
    IF ok THEN apiTokenFromUser ELSE Undefined

\* getApiToken storing the entered token whatever the response
storageUnchecked(ok, apiTokenFromUser, stored) == apiTokenFromUser

\* getApiToken after the validation response: GM.setValue only when ok
storageAfterValidation(ok, apiTokenFromUser, stored) ==
    IF ok THEN apiTokenFromUser ELSE stored

(***************************************************************************)
(* Pages and dictionaries the script is run on.                            *)
(***************************************************************************)
Vocab == { << "a" >>, << "b" >>, << "a", "b" >> }

\* <ruby>a<rt>x</rt></ruby>, <ruby>b<rt>y</rt></ruby>, <ruby>a</ruby>,
\* <ruby>a<rt>x</rt>b<rt>y</rt></ruby>, <ruby><rb>b</rb><rt>y</rt></ruby>,
\* <ruby><span>a<rt>b</rt></span></ruby>
RubyPool ==
    { << TextNode(<< "a" >>), RtNode(<< "x" >>) >>,
      << TextNode(<< "b" >>), RtNode(<< "y" >>) >>,
      << TextNode(<< "a" >>) >>,
      << TextNode(<< "a" >>), RtNode(<< "x" >>),
         TextNode(<< "b" >>), RtNode(<< "y" >>) >>,
      << RbNode(<< "b" >>), RtNode(<< "y" >>) >>,
      << SpanNode(<< "a" >>, << "b" >>) >> }

Documents == UNION { [1..n -> RubyPool] : n \in 0..MaxElems }

\* the annotation pattern the dictionary embeds for word w with reading r
Pattern(w, r) == RubyRbOpen \o w \o RbCloseRtOpen \o r \o RtCloseRubyClose

\* the pieces a definition text is made of: annotation patterns, plain text,
\* and ruby markup that is not of the pattern's form (no rb element)
SegPool ==
    { [pattern |-> TRUE,  word |-> << "a" >>,
       text |-> Pattern(<< "a" >>, << "x" >>)],
      [pattern |-> TRUE,  word |-> << "b" >>,
       text |-> Pattern(<< "b" >>, << "y" >>)],
      [pattern |-> FALSE, word |-> << >>, text |-> << "a", "d" >>],
      [pattern |-> FALSE, word |-> << >>,
       text |-> << "<","r","u","b","y",">","a","<","r","t",">","x",
                   "<","/","r","t",">","<","/","r","u","b","y",">" >>] }

SegSeqs == { << >> } \cup { << s >> : s \in SegPool }
               \cup { << s, t >> : s \in SegPool, t \in SegPool }

Render(segs) == Concat([i \in DOMAIN segs |-> segs[i].text])

DefPool == { Render(segs) : segs \in SegSeqs }

NoDictionary == [defined |-> FALSE, entries |-> << >>]

\* g_dic.reikai.entries for a list of definitions: the first under one key,
\* the others under a second key
Dictionary(defs) ==
    [defined |-> TRUE,
     entries |->
        IF Len(defs) <= 1
        THEN [k \in {"k1"} |-> [j \in DOMAIN defs |-> [def |-> defs[j]]]]
        ELSE [k \in {"k1", "k2"} |->
                 IF k = "k1" THEN << [def |-> defs[1]] >>
                 ELSE [j \in 1..(Len(defs) - 1) |-> [def |-> defs[j + 1]]]]]

Dictionaries ==
    { Dictionary(defs) : defs \in UNION { [1..n -> DefPool] : n \in 0..MaxEntries } }

\* the pages of the full run
RunPages ==
    { [document |-> << << TextNode(<< "a" >>), RtNode(<< "x" >>) >>,
                       << TextNode(<< "b" >>), RtNode(<< "y" >>) >> >>,
       g_dic    |-> Dictionary(<< Pattern(<< "a" >>, << "x" >>)
                                     \o Pattern(<< "b" >>, << "y" >>) >>)],
      [document |-> << << TextNode(<< "a" >>) >>,
                       << TextNode(<< "b" >>), RtNode(<< "y" >>) >> >>,
       g_dic    |-> NoDictionary] }

RecordSeqs ==
    { rs \in UNION { [1..n -> RecordPool] : n \in 0..MaxRecords } :
        \A i, j \in DOMAIN rs : i # j => rs[i] # rs[j] }

(***************************************************************************)
(* The run of handleUpdatingPage.                                          *)
(***************************************************************************)
serverVars == << records, aPageSize, sPageSize, honoursFilter, escapes >>
pageVars   == << document, g_dic, document0, g_dic0 >>
loopVars   == << knownVocab, nextPage, subjectIds, subjNextPage,
                 pagesSeen, lookups, received >>
netVars    == << inFlight, sent >>

IdleRun ==
    /\ existingToken = Undefined /\ userToken = Undefined
    /\ validation = "none" /\ apiToken = Undefined
    /\ knownVocab = {} /\ nextPage = NullUrl /\ subjectIds = << >>
    /\ subjNextPage = NullUrl /\ inFlight = {} /\ sent = << >>
    /\ pagesSeen = << >> /\ lookups = << >> /\ received = {}
    /\ alerts = 0 /\ logs = 0 /\ storeWrites = 0

Init ==
    /\ pc = "load"
    /\ storage \in StoredValues
    /\ IdleRun
    /\ \E page \in RunPages :
          /\ document = page.document /\ document0 = page.document
          /\ g_dic = page.g_dic /\ g_dic0 = page.g_dic
    /\ records \in RecordSeqs
    /\ aPageSize \in 1..MaxPage
    /\ sPageSize \in 1..MaxPage
    /\ honoursFilter \in BOOLEAN
    /\ escapes \in BOOLEAN

\* handleUpdatingPage once getApiToken has returned token: the alert, or
\* the start of getAssignments with its first request
AfterGetApiToken(token, pending) ==
    /\ apiToken' = token
    /\ IF ~Truthy(token)
       THEN /\ alerts' = alerts + 1
            /\ pc' = "alerted"
            /\ inFlight' = pending
            /\ UNCHANGED << sent, nextPage >>
       ELSE LET first == Request(AssignmentsUrl, token)
            IN  /\ nextPage' = AssignmentsUrl
                /\ inFlight' = pending \cup {first}
                /\ sent' = Append(sent, first)
                /\ pc' = "assignments"
                /\ UNCHANGED alerts

\* getApiToken: GM.getValue returned a token
LoadStored ==
    /\ pc = "load"
    /\ Truthy(storage)
    /\ existingToken' = storage
    /\ AfterGetApiToken(storage, inFlight)
    /\ UNCHANGED << storage, userToken, validation, knownVocab, subjectIds,
                    subjNextPage, pagesSeen, lookups, received, logs,
                    storeWrites, pageVars, serverVars >>

\* getApiToken: nothing stored, prompt, validation request
LoadPrompt ==
    /\ pc = "load"
    /\ ~Truthy(storage)
    /\ \E input \in UserInputs :
          LET req == Request(ValidationUrl, input)
          IN  /\ userToken' = input
              /\ inFlight' = inFlight \cup {req}
              /\ sent' = Append(sent, req)
    /\ existingToken' = storage
    /\ pc' = "validate"
    /\ UNCHANGED << storage, validation, apiToken, loopVars, alerts, logs,
                    storeWrites, pageVars, serverVars >>

\* getApiToken: the validation request got a response
ValidationResponse ==
    /\ pc = "validate"
    /\ \E req \in inFlight :
          LET ok == req.auth[2] \in ValidTokens
          IN  /\ validation' = IF ok THEN "ok" ELSE "rejected"
              /\ storage' = storageAfterValidation(ok, userToken, storage)
              /\ storeWrites' = IF storage' # storage THEN storeWrites + 1
                                ELSE storeWrites
              /\ AfterGetApiToken(tokenAfterValidation(ok, userToken),
                                  inFlight \ {req})
    /\ UNCHANGED << existingToken, userToken, knownVocab, subjectIds,
                    subjNextPage, pagesSeen, lookups, received, logs,
                    pageVars, serverVars >>

\* getApiToken: the validation fetch failed; the catch logs and yields
\* undefined, and response.ok throws a TypeError
ValidationNetworkError ==
    /\ pc = "validate"
    /\ \E req \in inFlight : inFlight' = inFlight \ {req}
    /\ validation' = "error"
    /\ logs' = logs + 1
    /\ pc' = "rejected"
    /\ UNCHANGED << storage, existingToken, userToken, apiToken, loopVars,
                    sent, alerts, storeWrites, pageVars, serverVars >>

\* getAssignments: an assignments page arrived; lookupVocab starts
AssignmentsPage ==
    /\ pc = "assignments"
    /\ \E req \in inFlight :
          /\ req.auth[2] \in ValidTokens
          /\ LET jsonData == AssignmentsJson(req.url)
                 ids      == lookupSubjectIds(jsonData, << >>)
                 first    == Request(SubjectsUrl(ids), apiToken)
             IN  /\ nextPage' = jsonData.pages.next_url
                 /\ subjectIds' = ids
                 /\ subjNextPage' = SubjectsUrl(ids)
                 /\ pagesSeen' = Append(pagesSeen, jsonData)
                 /\ lookups' = Append(lookups, [ids |-> ids, pages |-> << >>,
                                                returned |-> FALSE])
                 /\ inFlight' = (inFlight \ {req}) \cup {first}
                 /\ sent' = Append(sent, first)
    /\ pc' = "subjects"
    /\ UNCHANGED << storage, existingToken, userToken, validation, apiToken,
                    knownVocab, received, alerts, logs, storeWrites,
                    pageVars, serverVars >>

\* getAssignments: the server refused the token; the error body has no
\* pages field and jsonData.pages.next_url throws a TypeError
AssignmentsHttpError ==
    /\ pc = "assignments"
    /\ \E req \in inFlight :
          /\ req.auth[2] \notin ValidTokens
          /\ inFlight' = inFlight \ {req}
    /\ pc' = "rejected"
    /\ UNCHANGED << storage, existingToken, userToken, validation, apiToken,
                    loopVars, sent, alerts, logs, storeWrites,
                    pageVars, serverVars >>

\* getAssignments / lookupVocab: the fetch failed; the catch logs and
\* yields undefined, and response.json() throws a TypeError
PageNetworkError ==
    /\ pc \in {"assignments", "subjects"}
    /\ \E req \in inFlight : inFlight' = inFlight \ {req}
    /\ logs' = logs + 1
    /\ pc' = "rejected"
    /\ UNCHANGED << storage, existingToken, userToken, validation, apiToken,
                    loopVars, sent, alerts, storeWrites,
                    pageVars, serverVars >>

\* lookupVocab: a subjects page arrived; next subjects page, or back in
\* getAssignments the next assignments page, or getAssignments returns
SubjectsPage ==
    /\ pc = "subjects"
    /\ \E req \in inFlight :
          LET jsonData == SubjectsJson(req.url)
              next     == jsonData.pages.next_url
              n        == Len(lookups)
              seen     == [lookups EXCEPT ![n].pages = Append(@, jsonData)]
          IN  /\ subjNextPage' = next
              /\ knownVocab' = addVocabFromSubjects(jsonData, knownVocab)
              /\ received' = received \cup
                     { jsonData.data[i].data.slug : i \in DOMAIN jsonData.data }
              /\ IF loopAgain(next)
                 THEN LET r == Request(next, apiToken)
                      IN  /\ inFlight' = (inFlight \ {req}) \cup {r}
                          /\ sent' = Append(sent, r)
                          /\ lookups' = seen
                          /\ pc' = "subjects"
                 ELSE /\ lookups' = [seen EXCEPT ![n].returned = TRUE]
                      /\ IF loopAgain(nextPage)
                         THEN LET r == Request(nextPage, apiToken)
                              IN  /\ inFlight' = (inFlight \ {req}) \cup {r}
                                  /\ sent' = Append(sent, r)
                                  /\ pc' = "assignments"
                         ELSE /\ inFlight' = inFlight \ {req}
                              /\ sent' = sent
                              /\ pc' = "suppress"
    /\ UNCHANGED << storage, existingToken, userToken, validation, apiToken,
                    nextPage, subjectIds, pagesSeen, alerts, logs,
                    storeWrites, pageVars, serverVars >>

\* handleUpdatingPage after getAssignments: findRubyInPage, then
\* findRubyInDictionary when g_dic is defined
Suppress ==
    /\ pc = "suppress"
    /\ LET r == findRubyInPage(document, knownVocab)
       IN  /\ document' = r.doc
           /\ IF r.threw
              THEN /\ pc' = "rejected"
                   /\ g_dic' = g_dic
              ELSE /\ pc' = "done"
                   /\ g_dic' = IF g_dic.defined
                               THEN [g_dic EXCEPT !.entries =
                                        findRubyInDictionary(@, knownVocab)]
                               ELSE g_dic
    /\ UNCHANGED << storage, existingToken, userToken, validation, apiToken,
                    loopVars, netVars, alerts, logs, storeWrites,
                    document0, g_dic0, serverVars >>

Next ==
    \/ LoadStored
    \/ LoadPrompt
    \/ ValidationResponse
    \/ ValidationNetworkError
    \/ AssignmentsPage
    \/ AssignmentsHttpError
    \/ PageNetworkError
    \/ SubjectsPage
    \/ Suppress

Spec == Init /\ [][Next]_vars

\* the browser delivers every response and resumes every continuation
LiveSpec == Init /\ [][Next]_vars /\ WF_vars(Next)

(***************************************************************************)
(* findRubyInPage on its own, over every page and every vocabulary.        *)
(***************************************************************************)
IdleServer ==
    /\ records = << >> /\ aPageSize = 1 /\ sPageSize = 1
    /\ honoursFilter = TRUE /\ escapes = FALSE

InitPage ==
    /\ pc = "page"
    /\ storage = Undefined
    /\ existingToken = Undefined /\ userToken = Undefined
    /\ validation = "none" /\ apiToken = Undefined
    /\ knownVocab \in SUBSET Vocab
    /\ nextPage = NullUrl /\ subjectIds = << >>
    /\ subjNextPage = NullUrl /\ inFlight = {} /\ sent = << >>
    /\ pagesSeen = << >> /\ lookups = << >> /\ received = {}
    /\ alerts = 0 /\ logs = 0 /\ storeWrites = 0
    /\ document \in Documents /\ document0 = document
    /\ g_dic = NoDictionary /\ g_dic0 = NoDictionary
    /\ IdleServer

RunFindRubyInPage ==
    /\ pc = "page"
    /\ LET r == findRubyInPage(document, knownVocab)
       IN  /\ document' = r.doc
           /\ pc' = IF r.threw THEN "pageThrew" ELSE "pageDone"
    /\ UNCHANGED << storage, existingToken, userToken, validation, apiToken,
                    loopVars, netVars, alerts, logs, storeWrites,
                    g_dic, document0, g_dic0, serverVars >>

SpecPage == InitPage /\ [][RunFindRubyInPage]_vars

(***************************************************************************)
(* findRubyInDictionary on its own, over every dictionary and vocabulary.  *)
(***************************************************************************)
InitDict ==
    /\ pc = "dict"
    /\ storage = Undefined
    /\ existingToken = Undefined /\ userToken = Undefined
    /\ validation = "none" /\ apiToken = Undefined
    /\ knownVocab \in SUBSET Vocab
    /\ nextPage = NullUrl /\ subjectIds = << >>
    /\ subjNextPage = NullUrl /\ inFlight = {} /\ sent = << >>
    /\ pagesSeen = << >> /\ lookups = << >> /\ received = {}
    /\ alerts = 0 /\ logs = 0 /\ storeWrites = 0
    /\ document = << >> /\ document0 = << >>
    /\ g_dic \in Dictionaries /\ g_dic0 = g_dic
    /\ IdleServer

RunFindRubyInDictionary ==
    /\ pc = "dict"
    /\ g_dic' = [g_dic EXCEPT !.entries = findRubyInDictionary(@, knownVocab)]
    /\ pc' = "dictDone"
    /\ UNCHANGED << storage, existingToken, userToken, validation, apiToken,
                    loopVars, netVars, alerts, logs, storeWrites,
                    document, document0, g_dic0, serverVars >>

SpecDict == InitDict /\ [][RunFindRubyInDictionary]_vars

(***************************************************************************)
(* Properties.                                                             *)
(***************************************************************************)
SlugsOf(json) == { json.data[i].data.slug : i \in DOMAIN json.data }
IdsOf(json)   == { json.data[i].data.subject_id : i \in DOMAIN json.data }

\* style of the rt that querySelector("rt") finds in a ruby element
FirstRtStyle(rubyElement) ==
    rubyElement[querySelectorRt(rubyElement)].rt[1]

\* C1: after findRubyInPage has run over a page whose ruby elements may or
\* may not have an rt, the reading of every element whose base text is in
\* knownVocab is hidden, and every other element is as it was.
C1_HiddenIffKnown ==
    pc \in {"pageDone", "pageThrew"} =>
        \A i \in DOMAIN document0 :
            IF getTextWithoutRuby(document0[i]) \in knownVocab
            THEN querySelectorRt(document0[i]) # 0
                     => FirstRtStyle(document[i]) = "hidden"
            ELSE document[i] = document0[i]

\* what the rewrite of a definition made of the segments segs must be
Expected(segs, known) ==
    Concat([i \in DOMAIN segs |->
               IF segs[i].pattern /\ segs[i].word \in known
               THEN segs[i].word
               ELSE segs[i].text])

\* C2: findRubyInDictionary replaces, in every definition of every entry,
\* each annotation pattern whose base form is known by the bare base form
\* and leaves every other pattern and all other text as it was; a
\* definition without a known base form comes out identical.
C2_DictionaryRewrite ==
    pc = "dictDone" =>
        \A k \in DOMAIN g_dic0.entries :
            \A j \in DOMAIN g_dic0.entries[k] :
                \A segs \in SegSeqs :
                    g_dic0.entries[k][j].def = Render(segs) =>
                        /\ g_dic.entries[k][j].def = Expected(segs, knownVocab)
                        /\ (\A i \in DOMAIN segs :
                               ~(segs[i].pattern /\ segs[i].word \in knownVocab))
                           => g_dic.entries[k][j].def = g_dic0.entries[k][j].def

C2_Witness ==
    /\ pc = "dictDone"
    /\ \E k \in DOMAIN g_dic0.entries :
          \E j \in DOMAIN g_dic0.entries[k] :
              \E segs \in SegSeqs :
                  /\ g_dic0.entries[k][j].def = Render(segs)
                  /\ Len(segs) = 2
                  /\ segs[1].pattern /\ segs[1].word \notin knownVocab
                  /\ segs[2].pattern /\ segs[2].word \in knownVocab
                  /\ g_dic.entries[k][j].def = segs[1].text \o segs[2].word

\* the subject identifiers of the records the assignments endpoint serves
ServedIds ==
    { ServedRecords(AssignmentsUrl)[i].subject_id :
          i \in DOMAIN ServedRecords(AssignmentsUrl) }

\* C3: when getAssignments returns, knownVocab is exactly the union of the
\* slugs of all subjects pages received, and it is the set of the slugs of
\* the served records whatever the page sizes.
C3_Accumulation ==
    pc = "suppress" =>
        /\ knownVocab = received
        /\ knownVocab = { Slug(id) : id \in ServedIds }

C3_Witness ==
    /\ pc = "suppress"
    /\ Len(pagesSeen) >= 2
    /\ \E k \in DOMAIN lookups : Len(lookups[k].pages) >= 2
    /\ Cardinality(knownVocab) >= 2
    /\ Cardinality(ServedIds) > Cardinality(knownVocab)

\* C4: with nothing stored, an accepted token is written to storage and
\* returned; a rejected token writes nothing and undefined is returned.
C4_CredentialFlow ==
    (~Truthy(existingToken) /\ validation \in {"ok", "rejected"}) =>
        IF userToken \in ValidTokens
        THEN storage = userToken /\ storeWrites = 1 /\ apiToken = userToken
        ELSE storage = existingToken /\ storeWrites = 0 /\ apiToken = Undefined

C4_Witness ==
    /\ existingToken = Undefined
    /\ validation = "ok"
    /\ storage = userToken
    /\ apiToken = userToken
    /\ storeWrites = 1

PageRequests ==
    { i \in DOMAIN sent : sent[i].url.ep \in {"assignments", "subjects"} }

\* C5: when credential resolution fails (response not ok, network failure,
\* or nothing entered), getApiToken yields undefined and handleUpdatingPage
\* shows exactly one alert and does nothing else.
C5_FailureIsOneAlert ==
    (/\ ~Truthy(existingToken)
     /\ pc \notin {"load", "validate"}
     /\ \/ validation \in {"rejected", "error"}
        \/ ~Truthy(userToken)) =>
        /\ apiToken = Undefined
        /\ alerts = 1
        /\ PageRequests = {}
        /\ storage = existingToken /\ storeWrites = 0
        /\ document = document0 /\ g_dic = g_dic0

\* C6: the token of every request to the assignments or subjects endpoint
\* is the one read from storage at the start or a user-entered one whose
\* validation response was ok.
C6_TokenProvenance ==
    \A i \in PageRequests :
        \/ Truthy(existingToken) /\ sent[i].auth[2] = existingToken
        \/ validation = "ok" /\ sent[i].auth[2] = userToken

C6_Witness ==
    /\ validation = "ok"
    /\ \E i \in PageRequests :
          /\ sent[i].url.ep = "subjects"
          /\ sent[i].auth[2] = userToken

\* the identifiers of the records of a page that meet the stage floor and
\* the kind allow-list
QualifyingIds(json) ==
    { json.data[i].data.subject_id :
        i \in { j \in DOMAIN json.data :
                  /\ json.data[j].data.srs_stage >= 5
                  /\ json.data[j].data.subject_type \in {"kanji", "vocabulary"} } }

\* C7 as stated: only the records of a batch that meet both the stage floor
\* and the kind allow-list contribute their identifier to the set passed
\* to the subjects lookup.
C7_OnlyQualifyingContribute ==
    \A k \in DOMAIN lookups :
        Range(lookups[k].ids) = QualifyingIds(pagesSeen[k])

\* C7 amended: every record of a batch contributes its identifier to the
\* set passed to the subjects lookup, whatever its stage and kind; the
\* stage floor and the kind allow-list are only query parameters of the
\* assignments requests.
C7_AllRecordsContribute ==
    /\ \A k \in DOMAIN lookups :
          Range(lookups[k].ids) = IdsOf(pagesSeen[k])
    /\ \A i \in DOMAIN sent :
          sent[i].url.ep = "assignments" =>
              /\ sent[i].url.stages = {5, 6, 7, 8, 9}
              /\ sent[i].url.kinds = {"kanji", "vocabulary"}

C7_Witness ==
    /\ \E k \in DOMAIN lookups :
          /\ QualifyingIds(pagesSeen[k]) # {}
          /\ QualifyingIds(pagesSeen[k]) # IdsOf(pagesSeen[k])
          /\ Range(lookups[k].ids) = IdsOf(pagesSeen[k])
    /\ \E k \in DOMAIN lookups :
          \E i \in DOMAIN pagesSeen[k].data :
              /\ pagesSeen[k].data[i].data.srs_stage < 5
              /\ pagesSeen[k].data[i].data.subject_id \in Range(lookups[k].ids)
    /\ \E k \in DOMAIN lookups :
          \E i \in DOMAIN pagesSeen[k].data :
              /\ pagesSeen[k].data[i].data.subject_type = "radical"
              /\ pagesSeen[k].data[i].data.subject_id \in Range(lookups[k].ids)

\* C8: a network failure of an assignments or subjects fetch is logged,
\* shows no alert and does not abort the run.
C8_PageFailureNotFatal ==
    (Truthy(apiToken) /\ logs > 0) =>
        /\ alerts = 0
        /\ pc # "rejected"
        /\ received \subseteq knownVocab

\* the pages the server's next-page links chain from a URL
RECURSIVE AssignmentsChain(_)
AssignmentsChain(url) ==
    LET page == AssignmentsJson(url)
    IN  << page >> \o (IF page.pages.next_url.ep = "null" THEN << >>
                       ELSE AssignmentsChain(page.pages.next_url))

RECURSIVE SubjectsChain(_)
SubjectsChain(url) ==
    LET page == SubjectsJson(url)
    IN  << page >> \o (IF page.pages.next_url.ep = "null" THEN << >>
                       ELSE SubjectsChain(page.pages.next_url))

IsPrefix(s, t) == Len(s) <= Len(t) /\ s = SubSeq(t, 1, Len(s))

CountSent(ep) == Cardinality({ i \in DOMAIN sent : sent[i].url.ep = ep })

RECURSIVE SumPages(_)
SumPages(ls) ==
    IF ls = << >> THEN 0 ELSE Len(Head(ls).pages) + SumPages(Tail(ls))

Looping == pc \in {"assignments", "subjects", "suppress", "done"}

\* the pagination of both loops, up to the URL a request is sent to
ChainFollowed ==
    /\ IsPrefix(pagesSeen, AssignmentsChain(AssignmentsUrl))
    /\ \A k \in DOMAIN lookups :
          /\ IsPrefix(lookups[k].pages, SubjectsChain(SubjectsUrl(lookups[k].ids)))
          /\ lookups[k].returned
                => lookups[k].pages = SubjectsChain(SubjectsUrl(lookups[k].ids))
    /\ Looping =>
          /\ CountSent("assignments")
                = Len(pagesSeen) + (IF pc = "assignments" THEN 1 ELSE 0)
          /\ CountSent("subjects")
                = SumPages(lookups) + (IF pc = "subjects" THEN 1 ELSE 0)
    /\ pc \in {"suppress", "done"} =>
          /\ pagesSeen = AssignmentsChain(AssignmentsUrl)
          /\ CountSent("assignments") = Len(AssignmentsChain(AssignmentsUrl))

PageBefore(i) == Cardinality({ j \in 1..i : sent[j].url.ep = "assignments" })

\* C10: every assignments page consumed starts exactly one subjects loop,
\* filtered by the identifiers of that page only; the loop has returned
\* before the next assignments page is requested; never are two requests
\* in flight; suppression starts after the last page's loop has returned.
C10_NestedSequential ==
    /\ Cardinality(inFlight) <= 1
    /\ Len(lookups) = Len(pagesSeen)
    /\ \A k \in DOMAIN lookups :
          /\ Range(lookups[k].ids) = IdsOf(pagesSeen[k])
          /\ k < Len(lookups) => lookups[k].returned
    /\ \A i \in DOMAIN sent :
          sent[i].url.ep = "subjects" =>
              /\ PageBefore(i) \in DOMAIN pagesSeen
              /\ Range(sent[i].url.ids) = IdsOf(pagesSeen[PageBefore(i)])
    /\ \A req \in inFlight :
          req.url.ep = "assignments" =>
              \A k \in DOMAIN lookups : lookups[k].returned
    /\ pc \in {"suppress", "done"} =>
          /\ inFlight = {}
          /\ pagesSeen # << >>
          /\ pagesSeen[Len(pagesSeen)].pages.next_url.ep = "null"
          /\ \A k \in DOMAIN lookups : lookups[k].returned

C10_Witness ==
    /\ pc = "suppress"
    /\ Len(pagesSeen) >= 2
    /\ IdsOf(pagesSeen[1]) # IdsOf(pagesSeen[2])
    /\ IdsOf(pagesSeen[1]) # {}
    /\ \A k \in DOMAIN lookups : lookups[k].returned

====
